---- MODULE Spec2Model ----
(***************************************************************************)
(* A model of the pronunciation analyzer of verbal_practice:               *)
(*   src/src/components/PronunciationAnalyzer.tsx                          *)
(*                                                                         *)
(* Strings are sequences of one-character strings, so that toLowerCase,    *)
(* trim, split(/\s+/) and replace(/[^\w]/g, '') are computed character by  *)
(* character as the JavaScript does.                                       *)
(***************************************************************************)
EXTENDS Integers, Sequences, FiniteSets, TLC

(***************************************************************************)
(* Bounds of the model.                                                    *)
(***************************************************************************)
\* pieces that the spoken and the target phrase of an analysis hold together
MaxPieces == 5
\* component instances mounted in a run (visits of the analyze tab)
MaxInstances == 2
\* timers active at once
MaxTimers == 3
\* characters of an argument of calculateSimilarity applied on its own
MaxStrLen == 3
\* parts of the name of a file handed to uploadAvatar
MaxNameLen == 3
\* dictionary searches in flight at once
MaxSearches == 1
\* profile fetches in flight at once
MaxFetches == 2

(***************************************************************************)
(* JavaScript string primitives.                                           *)
(***************************************************************************)
UpperChars == <<"A","B","C","D","E","F","G","H","I","J","K","L","M",
                "N","O","P","Q","R","S","T","U","V","W","X","Y","Z">>
LowerChars == <<"a","b","c","d","e","f","g","h","i","j","k","l","m",
                "n","o","p","q","r","s","t","u","v","w","x","y","z">>
DigitChars == {"0","1","2","3","4","5","6","7","8","9"}

Range(s) == { s[i] : i \in DOMAIN s }

\* the lower-case letter of each upper-case letter
LowerOf ==
  [c \in Range(UpperChars) |->
     LowerChars[CHOOSE i \in DOMAIN UpperChars : UpperChars[i] = c]]

\* String.prototype.toLowerCase, on one character
LowerChar(c) == IF c \in DOMAIN LowerOf THEN LowerOf[c] ELSE c

\* String.prototype.toLowerCase
ToLowerCase(s) == [i \in DOMAIN s |-> LowerChar(s[i])]

\* the regular expression class \s (the characters of it the model draws)
IsSpace(c) == c \in {" ", "\t", "\n"}

\* the regular expression class \w : [A-Za-z0-9_]
WordChars == Range(UpperChars) \cup Range(LowerChars) \cup DigitChars \cup {"_"}
IsWordChar(c) == c \in WordChars

RECURSIVE TrimStart(_)
TrimStart(s) ==
  IF s # <<>> /\ IsSpace(Head(s)) THEN TrimStart(Tail(s)) ELSE s

RECURSIVE TrimEnd(_)
TrimEnd(s) ==
  IF s # <<>> /\ IsSpace(s[Len(s)]) THEN TrimEnd(SubSeq(s, 1, Len(s) - 1)) ELSE s

\* trimStart in place of trim
TrimStartOnly(s) == TrimStart(s)

\* String.prototype.trim
Trim(s) == TrimEnd(TrimStart(s))

\* s.split(/\s+/): the pieces between maximal runs of whitespace. A leading or a
\* trailing run yields an empty first or last piece, and '' yields [''].
\* cur is the piece being read, inRun whether the last character was whitespace.
RECURSIVE SplitFrom(_, _, _, _)
SplitFrom(s, acc, cur, inRun) ==
  IF s = <<>> THEN Append(acc, cur)
  ELSE IF IsSpace(Head(s))
    THEN IF inRun THEN SplitFrom(Tail(s), acc, cur, TRUE)
                  ELSE SplitFrom(Tail(s), Append(acc, cur), <<>>, TRUE)
    ELSE SplitFrom(Tail(s), acc, Append(cur, Head(s)), FALSE)

SplitWS(s) == SplitFrom(s, <<>>, <<>>, FALSE)

\* word.replace(/[^\w]/g, '')
CleanWord(w) == SelectSeq(w, IsWordChar)

\* arr[i] || '' for a 0-based index i of an array of strings
AtOrEmpty(arr, i) == IF i + 1 <= Len(arr) THEN arr[i + 1] ELSE <<>>

Max2(a, b) == IF a >= b THEN a ELSE b
Min2(a, b) == IF a <= b THEN a ELSE b

\* Math.round(n / d) for integers n >= 0, d > 0: halves round up. With the
\* lengths of the model the quotient n / d is never within a rounding error
\* of a half that it is not exactly on, so the integer form is exact.
RoundDiv(n, d) == (2 * n + d) \div (2 * d)

(***************************************************************************)
(* getPhoneticBreakdown: the static table and the lookup.                  *)
(* A transcription is kept as one opaque symbol (an ASCII rendering of the *)
(* source's IPA string between slashes): it is no sequence of characters   *)
(* of the model, as no IPA string of the table is a string of \w           *)
(* characters.                                                             *)
(***************************************************************************)
phoneticMap ==
  { << <<"h","e","l","l","o">>,                                  <<"/h@-'loU/">> >>,
    << <<"w","o","r","l","d">>,                                  <<"/w3:rld/">> >>,
    << <<"h","o","w">>,                                          <<"/haU/">> >>,
    << <<"a","r","e">>,                                          <<"/A:r/">> >>,
    << <<"y","o","u">>,                                          <<"/ju:/">> >>,
    << <<"t","o","d","a","y">>,                                  <<"/t@-'deI/">> >>,
    << <<"p","r","o","n","u","n","c","i","a","t","i","o","n">>,  <<"/pr@-,nVn-si-'eI-S@n/">> >>,
    << <<"p","r","a","c","t","i","c","e">>,                      <<"/'pr{k-tIs/">> >>,
    << <<"l","a","n","g","u","a","g","e">>,                      <<"/'l{N-gwIdZ/">> >>,
    << <<"s","p","e","e","c","h">>,                              <<"/spi:tS/">> >>,
    << <<"v","o","i","c","e">>,                                  <<"/vOIs/">> >>,
    << <<"s","o","u","n","d">>,                                  <<"/saUnd/">> >>,
    << <<"l","e","a","r","n">>,                                  <<"/l3:rn/">> >>,
    << <<"i","m","p","r","o","v","e">>,                          <<"/Im-'pru:v/">> >>,
    << <<"c","o","m","m","u","n","i","c","a","t","i","o","n">>,  <<"/k@-,mju:-nI-'keI-S@n/">> >>,
    << <<"a","r","t","i","c","u","l","a","t","i","o","n">>,      <<"/A:r-,tIk-j@-'leI-S@n/">> >>,
    << <<"f","l","u","e","n","c","y">>,                          <<"/'flu:-@n-si/">> >>,
    << <<"a","c","c","e","n","t">>,                              <<"/'{k-sent/">> >>,
    << <<"d","i","a","l","e","c","t">>,                          <<"/'daI-@-lekt/">> >> }

\* phoneticMap is an object literal: a key it does not own is looked up on
\* Object.prototype. These are the inherited keys a lower-cased string of \w
\* characters can spell; their values are an object and a function, not strings.
inheritedKeys ==
  { << <<"_","_","p","r","o","t","o","_","_">>,                  <<"[object Object]">> >>,
    << <<"c","o","n","s","t","r","u","c","t","o","r">>,          <<"[function Object]">> >> }

\* phoneticMap[cleanWord] || cleanWord
\* the truthy values a lookup in phoneticMap can return, by key
phoneticLookup ==
  [k \in { e[1] : e \in phoneticMap \cup inheritedKeys } |->
     (CHOOSE e \in phoneticMap \cup inheritedKeys : e[1] = k)[2]]

PhoneticOf(cleanWord) ==
  IF cleanWord \in DOMAIN phoneticLookup THEN phoneticLookup[cleanWord] ELSE cleanWord

getPhoneticBreakdown(text) ==
  LET words == SplitWS(ToLowerCase(text))
  IN  [i \in DOMAIN words |-> PhoneticOf(CleanWord(words[i]))]

(***************************************************************************)
(* calculateSimilarity: the Levenshtein matrix, filled row by row.         *)
(* A row j is the sequence matrix[j][0..str1.length], kept 1-based.        *)
(***************************************************************************)
\* the minimum without the candidate of the diagonal
Min3NoDiagonal(a, b, c) == Min2(a, b)

Min3(a, b, c) == Min2(a, Min2(b, c))

\* the cells matrix[j][i..] of row j, given the row above and the cells so far
RECURSIVE FillRow(_, _, _, _, _)
FillRow(str1, str2, j, prev, cur) ==
  LET i == Len(cur)      \* the next column, 0-based; cur holds columns 0..i-1
  IN  IF i > Len(str1) THEN cur
      ELSE LET indicator == IF str1[i] = str2[j] THEN 0 ELSE 1
               cell == Min3(cur[i] + 1, prev[i + 1] + 1, prev[i] + indicator)
           IN  FillRow(str1, str2, j, prev, Append(cur, cell))

\* the last row of the matrix, given row j - 1. (A row is never empty: the
\* test of it only has TLC compute a row before it starts on the next.)
RECURSIVE LastRow(_, _, _, _)
LastRow(str1, str2, j, prev) ==
  IF j > Len(str2) \/ prev = <<>> THEN prev
  ELSE LastRow(str1, str2, j + 1, FillRow(str1, str2, j, prev, <<j>>))

\* the difference of the lengths in place of the matrix's last cell
EditDistanceLengthDifference(str1, str2) ==
  Max2(Len(str1), Len(str2)) - Min2(Len(str1), Len(str2))

\* matrix[str2.length][str1.length]
EditDistance(str1, str2) ==
  LastRow(str1, str2, 1, [i \in 1..(Len(str1) + 1) |-> i - 1])[Len(str1) + 1]

\* calculateSimilarity normalised by the shorter length
calculateSimilarityMinLength(str1, str2) ==
  LET minLength == Min2(Len(str1), Len(str2))
  IN  IF minLength = 0 THEN [num |-> 1, den |-> 1]
      ELSE [num |-> minLength - EditDistance(str1, str2), den |-> minLength]

\* calculateSimilarity normalised by the length of its first argument
calculateSimilarityFirstLength(str1, str2) ==
  IF Len(str1) = 0 THEN [num |-> 1, den |-> 1]
  ELSE [num |-> Len(str1) - EditDistance(str1, str2), den |-> Len(str1)]

\* calculateSimilarity returns the fraction num / den; the model keeps the pair
calculateSimilarity(str1, str2) ==
  LET maxLength == Max2(Len(str1), Len(str2))
  IN  IF maxLength = 0 THEN [num |-> 1, den |-> 1]
      ELSE [num |-> maxLength - EditDistance(str1, str2), den |-> maxLength]

(***************************************************************************)
(* analyzePronounciation                                                   *)
(***************************************************************************)
\* the bands with > in place of >=
SimilarityFeedbackStrict(wordScore) ==
  IF wordScore > 90 THEN "Excellent pronunciation"
  ELSE IF wordScore > 75 THEN "Good pronunciation"
  ELSE IF wordScore > 60 THEN "Needs improvement"
  ELSE IF wordScore > 40 THEN "Significant difference"
  ELSE "Very different from target"

\* the feedback of a word compared by similarity
SimilarityFeedback(wordScore) ==
  IF wordScore >= 90 THEN "Excellent pronunciation"
  ELSE IF wordScore >= 75 THEN "Good pronunciation"
  ELSE IF wordScore >= 60 THEN "Needs improvement"
  ELSE IF wordScore >= 40 THEN "Significant difference"
  ELSE "Very different from target"

\* the loop body with the scores of its first two branches exchanged
ScoreWordSwapped(spokenWord, targetWord) ==
  IF spokenWord = <<>> /\ targetWord # <<>>
    THEN [score |-> 20, feedback |-> "Missing word"]
  ELSE IF spokenWord # <<>> /\ targetWord = <<>>
    THEN [score |-> 0, feedback |-> "Extra word"]
  ELSE IF spokenWord = targetWord
    THEN [score |-> 100, feedback |-> "Perfect match"]
  ELSE LET similarity == calculateSimilarity(spokenWord, targetWord)
           wordScore == RoundDiv(similarity.num * 100, similarity.den)
       IN  [score |-> wordScore, feedback |-> SimilarityFeedback(wordScore)]

\* the loop body with Math.round(similarity) * 100
ScoreWordRoundsSimilarity(spokenWord, targetWord) ==
  IF spokenWord = <<>> /\ targetWord # <<>>
    THEN [score |-> 0, feedback |-> "Missing word"]
  ELSE IF spokenWord # <<>> /\ targetWord = <<>>
    THEN [score |-> 20, feedback |-> "Extra word"]
  ELSE IF spokenWord = targetWord
    THEN [score |-> 100, feedback |-> "Perfect match"]
  ELSE LET similarity == calculateSimilarity(spokenWord, targetWord)
           wordScore == RoundDiv(similarity.num, similarity.den) * 100
       IN  [score |-> wordScore, feedback |-> SimilarityFeedback(wordScore)]

\* the if / else if chain of the loop body: the score and feedback of a position
ScoreWord(spokenWord, targetWord) ==
  IF spokenWord = <<>> /\ targetWord # <<>>
    THEN [score |-> 0, feedback |-> "Missing word"]
  ELSE IF spokenWord # <<>> /\ targetWord = <<>>
    THEN [score |-> 20, feedback |-> "Extra word"]
  ELSE IF spokenWord = targetWord
    THEN [score |-> 100, feedback |-> "Perfect match"]
  ELSE LET similarity == calculateSimilarity(spokenWord, targetWord)
           wordScore == RoundDiv(similarity.num * 100, similarity.den)
       IN  [score |-> wordScore, feedback |-> SimilarityFeedback(wordScore)]

\* the number of iterations of the loop
LoopCount(spokenWords, targetWords) == Max2(Len(spokenWords), Len(targetWords))

\* the entry with word and spoken exchanged
WordAnalysisAtExchanged(spokenWords, targetWords, phoneticTarget, i) ==
  LET spokenWord == AtOrEmpty(spokenWords, i)
      targetWord == AtOrEmpty(targetWords, i)
      phoneticWord == AtOrEmpty(phoneticTarget, i)
      sc == ScoreWord(spokenWord, targetWord)
  IN  [word |-> spokenWord, expected |-> phoneticWord, spoken |-> targetWord,
       score |-> sc.score, feedback |-> sc.feedback]

\* the entry pushed by iteration i (0-based)
WordAnalysisAt(spokenWords, targetWords, phoneticTarget, i) ==
  LET spokenWord == AtOrEmpty(spokenWords, i)
      targetWord == AtOrEmpty(targetWords, i)
      phoneticWord == AtOrEmpty(phoneticTarget, i)
      sc == ScoreWord(spokenWord, targetWord)
  IN  [word |-> targetWord, expected |-> phoneticWord, spoken |-> spokenWord,
       score |-> sc.score, feedback |-> sc.feedback]

RECURSIVE SumScores(_)
SumScores(wordBreakdown) ==
  IF wordBreakdown = <<>> THEN 0
  ELSE Head(wordBreakdown).score + SumScores(Tail(wordBreakdown))

\* the total divided by the number of target words alone
OverallScoreByTarget(totalScore, spokenWords, targetWords) ==
  RoundDiv(totalScore, Max2(Len(targetWords), 1))

\* Math.round(totalScore / Math.max(spokenWords.length, targetWords.length, 1))
OverallScore(totalScore, spokenWords, targetWords) ==
  RoundDiv(totalScore, Max2(Max2(Len(spokenWords), Len(targetWords)), 1))

OverallFeedback(overallScore) ==
  IF overallScore >= 90 THEN "Outstanding pronunciation! You sound very natural."
  ELSE IF overallScore >= 75 THEN "Great job! Your pronunciation is quite good."
  ELSE IF overallScore >= 60 THEN "Good effort! There's room for improvement."
  ELSE IF overallScore >= 40 THEN "Keep practicing! Focus on clarity and accuracy."
  ELSE "Don't give up! Pronunciation takes time to master."

\* the suggestions with > in place of >=
SuggestionsStrictBands(overallScore) ==
  IF overallScore > 90 THEN
    << "Try more complex sentences to challenge yourself" >>
  ELSE IF overallScore > 75 THEN
    << "Focus on the words with lower scores",
       "Practice speaking at a steady pace" >>
  ELSE IF overallScore > 60 THEN
    << "Listen carefully to the target pronunciation",
       "Practice individual words that scored low",
       "Speak more slowly and clearly" >>
  ELSE IF overallScore > 40 THEN
    << "Break down words into syllables",
       "Practice in front of a mirror",
       "Record yourself multiple times" >>
  ELSE
    << "Start with shorter, simpler words",
       "Listen to native speakers",
       "Practice basic sounds first" >>

Suggestions(overallScore) ==
  IF overallScore >= 90 THEN
    << "Try more complex sentences to challenge yourself" >>
  ELSE IF overallScore >= 75 THEN
    << "Focus on the words with lower scores",
       "Practice speaking at a steady pace" >>
  ELSE IF overallScore >= 60 THEN
    << "Listen carefully to the target pronunciation",
       "Practice individual words that scored low",
       "Speak more slowly and clearly" >>
  ELSE IF overallScore >= 40 THEN
    << "Break down words into syllables",
       "Practice in front of a mirror",
       "Record yourself multiple times" >>
  ELSE
    << "Start with shorter, simpler words",
       "Listen to native speakers",
       "Practice basic sounds first" >>

\* The result of analyzePronounciation(spoken, target). The timestamp
\* (Date.now()) is not part of the model's result.
analyzePronounciation(spoken, target) ==
  LET spokenWords == SplitWS(Trim(ToLowerCase(spoken)))
      targetWords == SplitWS(Trim(ToLowerCase(target)))
      phoneticTarget == getPhoneticBreakdown(target)
      wordBreakdown ==
        [k \in 1..LoopCount(spokenWords, targetWords) |->
           WordAnalysisAt(spokenWords, targetWords, phoneticTarget, k - 1)]
      overallScore == OverallScore(SumScores(wordBreakdown), spokenWords, targetWords)
  IN  [overallScore |-> overallScore,
       wordBreakdown |-> wordBreakdown,
       feedback |-> OverallFeedback(overallScore),
       suggestions |-> Suggestions(overallScore)]

(***************************************************************************)
(* The analysis on its own: analyzePronounciation applied to phrases made  *)
(* of a few pieces.                                                        *)
(***************************************************************************)
\* white space, punctuation, a word of the table, the same capitalised, and a
\* near miss of it that the table does not hold
Pieces ==
  { <<" ">>,
    <<",">>,
    <<"h","o","w">>,
    <<"H","o","w">>,
    <<"h","e","w">> }

RECURSIVE PhrasesOf(_)
PhrasesOf(n) ==
  IF n = 0 THEN { <<>> }
  ELSE LET shorter == PhrasesOf(n - 1)
       IN  shorter \cup { s \o p : s \in shorter, p \in Pieces }

\* Phrases of one longer word: a word of the table and a near miss of it, two
\* words that are each other's reversal, and the property names that every
\* object literal inherits and a lower-cased word can spell
Samples ==
  { <<"p","r","o","n","u","n","c","i","a","t","i","o","n">>,
    <<"p","r","o","n","u","n","c","i","a","c","i","o","n">>,
    <<"n","o">>,
    <<"o","n">>,
    <<"c","o","n","s","t","r","u","c","t","o","r">>,
    <<"_","_","p","r","o","t","o","_","_">> }

NoResult == [overallScore |-> -1, wordBreakdown |-> <<>>,
             feedback |-> "", suggestions |-> <<>>]

VARIABLES
  spoken,      \* the first argument of analyzePronounciation
  target,      \* the second argument
  result       \* what the call returned, NoResult before it

(***************************************************************************)
(* calculateSimilarity on its own: applied to every pair of strings over a *)
(* small alphabet.                                                         *)
(***************************************************************************)
SimChars == { "a", "b", "c" }

\* the strings over SimChars of at most n characters
RECURSIVE StringsOf(_)
StringsOf(n) ==
  IF n = 0 THEN { <<>> }
  ELSE LET shorter == StringsOf(n - 1)
       IN  shorter \cup { Append(s, c) : s \in shorter, c \in SimChars }

NoSimilarity == [num |-> 0, den |-> 0]

VARIABLES
  simA,        \* the first argument of calculateSimilarity
  simB,        \* the second argument
  similarity   \* what the call returned, NoSimilarity before it

simVars == <<simA, simB, similarity>>

(***************************************************************************)
(* uploadAvatar (AuthContext.tsx) and the insert policy of the storage     *)
(* objects (the migration). A name is a sequence of parts; "." and "/" are *)
(* parts of their own.                                                     *)
(***************************************************************************)
\* s.split(sep) and string_to_array(s, sep): the pieces between separators
RECURSIVE SplitOn(_, _, _, _)
SplitOn(s, sep, acc, cur) ==
  IF s = <<>> THEN Append(acc, cur)
  ELSE IF Head(s) = sep THEN SplitOn(Tail(s), sep, Append(acc, cur), <<>>)
  ELSE SplitOn(Tail(s), sep, acc, Append(cur, Head(s)))

\* file.name.split('.').pop()
fileExt(name) ==
  LET pieces == SplitOn(name, ".", <<>>, <<>>)
  IN  pieces[Len(pieces)]

\* `${user.id}.${fileExt}`
fileName(userId, name) == userId \o <<".">> \o fileExt(name)

\* `avatars/${fileName}`
filePath(userId, name) == <<"avatars", "/">> \o fileName(userId, name)

\* storage.foldername(name): the segments of the name but the last
foldername(name) ==
  LET segments == SplitOn(name, "/", <<>>, <<>>)
  IN  SubSeq(segments, 1, Len(segments) - 1)

\* WITH CHECK (bucket_id = 'avatars' AND
\*             auth.uid()::text = (storage.foldername(name))[1])
\* (the first element of an empty array is NULL, and the check fails)
InsertPolicy(uid, bucket, name) ==
  /\ bucket = "avatars"
  /\ foldername(name) # <<>>
  /\ uid = foldername(name)[1]

\* the ids of the users, and no user
UserIds == { <<"u1">>, <<"u2">>, <<"u3">> }
NoUser == <<>>

NameParts == { "me", "png", ".", "/" }

\* the file names of 1 to n parts
RECURSIVE NamesOf(_)
NamesOf(n) ==
  IF n = 1 THEN { <<p>> : p \in NameParts }
  ELSE LET shorter == NamesOf(n - 1)
       IN  shorter \cup { Append(s, p) : s \in shorter, p \in NameParts }

NoUpload == [error |-> "", bucket |-> "", name |-> <<>>]

VARIABLES
  upUser,      \* user of the render whose uploadAvatar is called
  upFile,      \* file.name
  upResult     \* the outcome of the call, NoUpload before it

upVars == <<upUser, upFile, upResult>>

(***************************************************************************)
(* The word history of PronunciationApp (App.tsx). A word is a number; the *)
(* entry of a word is the word (its timestamp is left out).                *)
(***************************************************************************)
WordHistoryCap == 50

\* the body of addToHistory without its filter
addToHistoryNoFilter(captured, word) ==
  SubSeq(<<word>> \o captured, 1, Min2(Len(captured) + 1, WordHistoryCap))

\* [wordData, ...wordHistory.filter(w => w.word !== wordData.word)].slice(0, 50)
\* captured is the wordHistory of the render that created this addToHistory
addToHistory(captured, word) ==
  LET others == SelectSeq(captured, LAMBDA w : w # word)
  IN  SubSeq(<<word>> \o others, 1, Min2(Len(others) + 1, WordHistoryCap))

\* a history of 50 words, the newest first
FullHistory == [k \in 1..WordHistoryCap |-> k]

\* what localStorage 'pronunciationHistory' holds when the page is loaded
StoredHistories == { <<>>, FullHistory }

\* the words spoken or searched: the oldest word of FullHistory and a new one
AddWords == { WordHistoryCap, WordHistoryCap + 1 }

NoUtterance == [word |-> 0, captured |-> <<>>]

VARIABLES
  wordHistory,        \* useState of PronunciationApp
  storedWordHistory,  \* localStorage 'pronunciationHistory', parsed
  utterance,          \* the utterance being spoken, with the closure of its onend
  searches,           \* the dictionary searches in flight, each with its closure
  whLast              \* the step of the word history that ran last

whVars == <<wordHistory, storedWordHistory, utterance, searches, whLast>>

(***************************************************************************)
(* AuthProvider (AuthContext.tsx): the effect with initAuth and the        *)
(* onAuthStateChange callback, fetchProfile and retryProfileFetch. A       *)
(* profile is known by its id. session is left out: the code reads only    *)
(* session.user, which is user.                                            *)
(***************************************************************************)
NoProfile == <<>>

VARIABLES
  user,          \* useState, line 34
  profile,       \* useState, line 35: the id of the profile
  loading,       \* useState, line 37
  profileError,  \* useState, line 38: whether it is set
  initPending,   \* initAuth waits for getSession
  fetches        \* the calls of fetchProfile that wait for their request

authVars == <<user, profile, loading, profileError, initPending, fetches>>

\* the variables of the other parts of the application
extVars == <<upVars, whVars, authVars>>

anVars == <<spoken, target, result, simVars, extVars>>

(***************************************************************************)
(* The component PronunciationAnalyzer and the recognizer it drives.       *)
(*                                                                         *)
(* The analyze tab renders the component conditionally (App.tsx), so every *)
(* visit of the tab mounts a new instance, with new state and new refs.    *)
(* React state is kept for the mounted instance only; refs, the handlers'  *)
(* closures, the recognizer and the timers outlive an unmount.             *)
(***************************************************************************)
VARIABLES
  mounted,             \* the mounted instance, 0 when another tab is shown
  instances,           \* the number of instances created so far
  isListening,         \* useState, line 26
  transcript,          \* useState, line 28
  targetText,          \* useState, line 29
  analysisResult,      \* useState, line 31
  isAnalyzing,         \* useState, line 32
  realtimeScore,       \* useState, line 33
  recognitionRef,      \* per instance: NoRecognition, or the closure of its handlers
  analysisIntervalRef, \* per instance: the handle last stored, 0 for null
  recognizer,          \* per instance: the state of its SpeechRecognition object
  timers,              \* the active timers of the window
  history,             \* localStorage 'pronunciationAnalysis', parsed
  last                 \* the handler that ran last, with its instance

uiVars == <<isListening, transcript, targetText, analysisResult, isAnalyzing, realtimeScore>>
sessVars == <<mounted, instances, uiVars, recognitionRef, analysisIntervalRef,
              recognizer, timers, history, last>>
vars == <<anVars, sessVars>>

Inst == 1..MaxInstances

NoRecognition == [made |-> FALSE, transcript |-> <<>>, targetText |-> <<>>]
NoScore == -1

\* what the recognizer delivers, and what the target text area holds
Transcripts == { <<>>, <<"h","o","w">>, <<"h","e","w">> }
Targets == { <<"h","o","w">>, <<"h","o","w"," ","h","e","w">> }

\* 'Hello world, how are you today?' is the target when currentWord is ''; the
\* model starts an instance from any of its targets (currentWord || default)
InitSess ==
  /\ mounted = 0
  /\ instances = 0
  /\ isListening = FALSE
  /\ transcript = <<>>
  /\ targetText = <<>>
  /\ analysisResult = NoResult
  /\ isAnalyzing = FALSE
  /\ realtimeScore = NoScore
  /\ recognitionRef = [i \in Inst |-> NoRecognition]
  /\ analysisIntervalRef = [i \in Inst |-> 0]
  /\ recognizer = [i \in Inst |-> "inactive"]
  /\ timers = {}
  /\ history = <<>>
  /\ last = <<"init", 0>>

\* clearInterval(handle)
clearInterval(tms, handle) == { t \in tms : t.id # handle }

TimersOf(i) == { t \in timers : t.inst = i }

\* The handle that setInterval or setTimeout returns to a handler of instance i.
\* The code only stores a handle and hands it to clearInterval, so the model
\* takes the least number that no active timer has and no ref holds: a new
\* handle never equals one handed out before that is still in use or stored.
newHandle(i) ==
  LET used == { t.id : t \in timers } \cup { analysisIntervalRef[k] : k \in Inst }
  IN  CHOOSE n \in 1..(MaxTimers + MaxInstances + 1) :
        /\ n \notin used
        /\ \A m \in 1..(n - 1) : m \in used

\* a setState of instance i: React drops the update of an unmounted component
SetIfMounted(i, new, old) == IF mounted = i THEN new ELSE old

(***************************************************************************)
(* The user.                                                               *)
(***************************************************************************)
\* the analyze tab is opened: useState initial values, useRef(null)
Mount(tgt) ==
  /\ mounted = 0
  /\ instances < MaxInstances
  /\ instances' = instances + 1
  /\ mounted' = instances + 1
  /\ isListening' = FALSE
  /\ transcript' = <<>>
  /\ targetText' = tgt
  /\ analysisResult' = NoResult
  /\ isAnalyzing' = FALSE
  /\ realtimeScore' = NoScore
  /\ last' = <<"mount", instances + 1>>
  /\ UNCHANGED <<anVars, recognitionRef, analysisIntervalRef, recognizer, timers, history>>

\* Another tab is opened. The component has no effect and so no cleanup: its
\* state is dropped, and its recognizer and timers are left as they are.
Unmount ==
  /\ mounted # 0
  /\ mounted' = 0
  /\ isListening' = FALSE
  /\ transcript' = <<>>
  /\ targetText' = <<>>
  /\ analysisResult' = NoResult
  /\ isAnalyzing' = FALSE
  /\ realtimeScore' = NoScore
  /\ last' = <<"unmount", mounted>>
  /\ UNCHANGED <<anVars, instances, recognitionRef, analysisIntervalRef,
                 recognizer, timers, history>>

\* onChange of the target text area
SetTargetText(tgt) ==
  /\ mounted # 0
  /\ tgt # targetText
  /\ targetText' = tgt
  /\ last' = <<"setTargetText", mounted>>
  /\ UNCHANGED <<anVars, mounted, instances, isListening, transcript, analysisResult, isAnalyzing,
                 realtimeScore, recognitionRef, analysisIntervalRef, recognizer,
                 timers, history>>

\* initializeRecognition: the handlers close over transcript and targetText of
\* the render that calls it
initializeRecognition == [made |-> TRUE, transcript |-> transcript, targetText |-> targetText]

\* startListening, the button's handler while isListening is false (line 409).
\* start() of a recognizer that has not ended throws and changes nothing.
startListening ==
  /\ mounted # 0
  /\ ~isListening
  /\ recognitionRef' =
       IF ~recognitionRef[mounted].made
         THEN [recognitionRef EXCEPT ![mounted] = initializeRecognition]
         ELSE recognitionRef
  /\ recognizer' =
       IF recognizer[mounted] = "inactive"
         THEN [recognizer EXCEPT ![mounted] = "starting"]
         ELSE recognizer
  /\ last' = <<"startListening", mounted>>
  /\ UNCHANGED <<anVars, mounted, instances, uiVars, analysisIntervalRef, timers, history>>

\* the timers left by stopListening: it calls recognition.stop() and no more
stopListeningTimers(i) == timers

\* stopListening, the button's handler while isListening is true (line 409)
stopListening ==
  /\ mounted # 0
  /\ isListening
  /\ recognizer' =
       IF recognitionRef[mounted].made /\ recognizer[mounted] = "active"
         THEN [recognizer EXCEPT ![mounted] = "stopping"]
         ELSE recognizer
  /\ timers' = stopListeningTimers(mounted)
  /\ last' = <<"stopListening", mounted>>
  /\ UNCHANGED <<anVars, mounted, instances, uiVars, recognitionRef, analysisIntervalRef,
                 history>>

\* the timers left by reset
resetTimers(i) ==
  IF analysisIntervalRef[i] # 0 THEN clearInterval(timers, analysisIntervalRef[i]) ELSE timers

\* reset: abort() ends the recognition without further results
reset ==
  /\ mounted # 0
  /\ transcript' = <<>>
  /\ analysisResult' = NoResult
  /\ realtimeScore' = NoScore
  /\ recognizer' =
       IF recognitionRef[mounted].made /\ recognizer[mounted] \in {"starting", "active", "stopping"}
         THEN [recognizer EXCEPT ![mounted] = "aborting"]
         ELSE recognizer
  /\ timers' = resetTimers(mounted)
  /\ last' = <<"reset", mounted>>
  /\ UNCHANGED <<anVars, mounted, instances, isListening, targetText, isAnalyzing,
                 recognitionRef, analysisIntervalRef, history>>

(***************************************************************************)
(* The recognizer's events. A SpeechRecognition object is                  *)
(*   inactive -start()-> starting -start event-> active -stop()-> stopping *)
(* and abort() takes it to aborting; an error event takes it to ending;    *)
(* the end event takes it from active (the recognizer gives up by itself), *)
(* stopping, aborting and ending back to inactive. An error event is       *)
(* always followed by an end event.                                        *)
(***************************************************************************)
\* the timers after onstart: the new interval is added to those there are
onstartTimers(i) == timers \cup { [id |-> newHandle(i), kind |-> "interval", inst |-> i] }

\* recognition.onstart
onstart(i) ==
  /\ recognizer[i] = "starting"
  /\ Cardinality(timers) < MaxTimers
  /\ recognizer' = [recognizer EXCEPT ![i] = "active"]
  /\ isListening' = SetIfMounted(i, TRUE, isListening)
  /\ transcript' = SetIfMounted(i, <<>>, transcript)
  /\ realtimeScore' = SetIfMounted(i, NoScore, realtimeScore)
  /\ analysisIntervalRef' = [analysisIntervalRef EXCEPT ![i] = newHandle(i)]
  /\ timers' = onstartTimers(i)
  /\ last' = <<"onstart", i>>
  /\ UNCHANGED <<anVars, mounted, instances, targetText, analysisResult, isAnalyzing,
                 recognitionRef, history>>

\* recognition.onresult: currentTranscript = final || interim
onresult(i, currentTranscript) ==
  /\ recognizer[i] \in {"active", "stopping"}
  /\ transcript' = SetIfMounted(i, currentTranscript, transcript)
  /\ last' = <<"onresult", i>>
  /\ UNCHANGED <<anVars, mounted, instances, isListening, targetText, analysisResult, isAnalyzing,
                 realtimeScore, recognitionRef, analysisIntervalRef, recognizer,
                 timers, history>>

\* the transcript of the current render in place of the closure's
closureTranscriptCurrent(i) == transcript

\* the transcript that onend and the interval callback test and analyse: the
\* variable of the closure made by initializeRecognition
closureTranscript(i) == recognitionRef[i].transcript

\* the target they analyse against
closureTargetText(i) == recognitionRef[i].targetText

\* if (analysisIntervalRef.current) clearInterval(analysisIntervalRef.current)
onendCleared(i) ==
  IF analysisIntervalRef[i] # 0 THEN clearInterval(timers, analysisIntervalRef[i]) ELSE timers

\* recognition.onend
onend(i) ==
  /\ recognizer[i] \in {"active", "stopping", "aborting", "ending"}
  /\ recognizer' = [recognizer EXCEPT ![i] = "inactive"]
  /\ isListening' = SetIfMounted(i, FALSE, isListening)
  /\ IF Trim(closureTranscript(i)) # <<>>
       THEN /\ Cardinality(timers) < MaxTimers
            /\ isAnalyzing' = SetIfMounted(i, TRUE, isAnalyzing)
            /\ timers' = onendCleared(i) \cup
                           { [id |-> newHandle(i), kind |-> "timeout", inst |-> i] }
       ELSE /\ timers' = onendCleared(i)
            /\ UNCHANGED isAnalyzing
  /\ last' = <<"onend", i>>
  /\ UNCHANGED <<anVars, mounted, instances, transcript, targetText, analysisResult, realtimeScore,
                 recognitionRef, analysisIntervalRef, history>>

\* onerror without its clearInterval
onerrorTimersKept(i) == timers

\* the timers left by onerror
onerrorTimers(i) ==
  IF analysisIntervalRef[i] # 0 THEN clearInterval(timers, analysisIntervalRef[i]) ELSE timers

\* recognition.onerror
onerror(i) ==
  /\ recognizer[i] \in {"starting", "active", "stopping", "aborting"}
  /\ recognizer' = [recognizer EXCEPT ![i] = "ending"]
  /\ isListening' = SetIfMounted(i, FALSE, isListening)
  /\ timers' = onerrorTimers(i)
  /\ last' = <<"onerror", i>>
  /\ UNCHANGED <<anVars, mounted, instances, transcript, targetText, analysisResult, isAnalyzing,
                 realtimeScore, recognitionRef, analysisIntervalRef, history>>

(***************************************************************************)
(* The window's timers.                                                    *)
(***************************************************************************)
HistoryCap == 50

\* history.unshift(result); history.slice(0, 50)
SaveToHistory(hist, res) == SubSeq(<<res>> \o hist, 1, Min2(Len(hist) + 1, HistoryCap))

\* An active timer runs its callback: the callback of the interval set by
\* onstart (every 1000 ms) or that of the timeout set by onend (after 1500 ms).
\* The timeout's callback calls its two setters before it touches localStorage:
\* when getItem, JSON.parse or setItem throws, the stored history is left as
\* it was and the state updates already made take effect.
timerFires(t) ==
  /\ t \in timers
  /\ IF t.kind = "interval"
       THEN /\ realtimeScore' =
                 IF Trim(closureTranscript(t.inst)) # <<>>
                   THEN SetIfMounted(t.inst,
                          analyzePronounciation(closureTranscript(t.inst),
                                                closureTargetText(t.inst)).overallScore,
                          realtimeScore)
                   ELSE realtimeScore
            /\ last' = <<"tick", t.inst>>
            /\ UNCHANGED <<analysisResult, isAnalyzing, history, timers>>
       ELSE LET res == analyzePronounciation(closureTranscript(t.inst),
                                             closureTargetText(t.inst))
            IN  /\ analysisResult' = SetIfMounted(t.inst, res, analysisResult)
                /\ isAnalyzing' = SetIfMounted(t.inst, FALSE, isAnalyzing)
                /\ \E stored \in BOOLEAN :
                     /\ history' = IF stored THEN SaveToHistory(history, res) ELSE history
                     /\ last' = <<IF stored THEN "timeout" ELSE "timeoutNotStored", t.inst>>
                /\ timers' = timers \ {t}
                /\ UNCHANGED realtimeScore
  /\ UNCHANGED <<anVars, mounted, instances, isListening, transcript, targetText,
                 recognitionRef, analysisIntervalRef, recognizer>>

NextSess ==
  \/ \E tgt \in Targets : Mount(tgt)
  \/ Unmount
  \/ \E tgt \in Targets : SetTargetText(tgt)
  \/ startListening
  \/ stopListening
  \/ reset
  \/ \E i \in Inst : onstart(i)
  \/ \E i \in Inst, tr \in Transcripts : onresult(i, tr)
  \/ \E i \in Inst : onend(i)
  \/ \E i \in Inst : onerror(i)
  \/ \E t \in timers : timerFires(t)

\* no call of calculateSimilarity on its own
InitNoSim ==
  /\ simA = <<>>
  /\ simB = <<>>
  /\ similarity = NoSimilarity

\* no call of uploadAvatar
InitNoUp ==
  /\ upUser = NoUser
  /\ upFile = <<>>
  /\ upResult = NoUpload

\* the word history of a page that is not in use
InitNoWh ==
  /\ wordHistory = <<>>
  /\ storedWordHistory = <<>>
  /\ utterance = NoUtterance
  /\ searches = {}
  /\ whLast = <<"load", 0>>

\* AuthProvider as it is mounted: useState initial values, initAuth called
InitProvider ==
  /\ user = NoUser
  /\ profile = NoProfile
  /\ loading = TRUE
  /\ profileError = FALSE
  /\ initPending = TRUE
  /\ fetches = {}

\* nothing of the other parts of the application
InitNoExt == InitNoUp /\ InitNoWh /\ InitProvider

\* no call of analyzePronounciation on its own
InitNoAn ==
  /\ spoken = <<>>
  /\ target = <<>>
  /\ result = NoResult

Init ==
  /\ InitSess
  /\ InitNoAn
  /\ InitNoSim
  /\ InitNoExt

Next == NextSess

Spec == Init /\ [][Next]_vars

(***************************************************************************)
(* The analysis on its own.                                                *)
(***************************************************************************)
InitAn ==
  /\ \/ \E k \in 0..MaxPieces :
          /\ spoken \in PhrasesOf(k)
          /\ target \in PhrasesOf(MaxPieces - k)
     \/ /\ spoken \in Samples
        /\ target \in Samples
  /\ result = NoResult
  /\ InitNoSim
  /\ InitNoExt
  /\ InitSess

\* const result = analyzePronounciation(spoken, target)
Analyze ==
  /\ result = NoResult
  /\ result' = analyzePronounciation(spoken, target)
  /\ UNCHANGED <<spoken, target, simVars, extVars, sessVars>>

NextAn == Analyze

SpecAn == InitAn /\ [][NextAn]_vars

(***************************************************************************)
(* The similarity on its own.                                              *)
(***************************************************************************)
InitSim ==
  /\ simA \in StringsOf(MaxStrLen)
  /\ simB \in StringsOf(MaxStrLen)
  /\ similarity = NoSimilarity
  /\ InitNoAn
  /\ InitNoExt
  /\ InitSess

\* const similarity = calculateSimilarity(simA, simB)
Similarity ==
  /\ similarity = NoSimilarity
  /\ similarity' = calculateSimilarity(simA, simB)
  /\ UNCHANGED <<simA, simB, spoken, target, result, extVars, sessVars>>

NextSim == Similarity

SpecSim == InitSim /\ [][NextSim]_vars

(***************************************************************************)
(* uploadAvatar on its own.                                                *)
(***************************************************************************)
InitUp ==
  /\ upUser \in UserIds \cup { NoUser }
  /\ upFile \in NamesOf(MaxNameLen)
  /\ upResult = NoUpload
  /\ InitNoWh
  /\ InitProvider
  /\ InitNoAn
  /\ InitNoSim
  /\ InitSess

\* uploadAvatar(file): supabase.storage.from('avatars').upload(filePath, file)
\* inserts the object, as the signed-in user, when the policy permits it
uploadAvatar ==
  /\ upResult = NoUpload
  /\ upResult' =
       IF upUser = NoUser
         THEN [error |-> "No user logged in", bucket |-> "", name |-> <<>>]
       ELSE IF ~InsertPolicy(upUser, "avatars", filePath(upUser, upFile))
         THEN [error |-> "new row violates row-level security policy",
               bucket |-> "avatars", name |-> filePath(upUser, upFile)]
       ELSE [error |-> "none", bucket |-> "avatars", name |-> filePath(upUser, upFile)]
  /\ UNCHANGED <<upUser, upFile, whVars, authVars, spoken, target, result, simVars, sessVars>>

NextUp == uploadAvatar

SpecUp == InitUp /\ [][NextUp]_vars

(***************************************************************************)
(* The word history: TextToSpeech and Dictionary call the addToHistory of  *)
(* the render in which speak or searchDictionary ran. The user may change  *)
(* tabs between any two steps; an utterance and a search go on when their  *)
(* component is no longer shown.                                           *)
(***************************************************************************)
whOther == <<upVars, authVars, spoken, target, result, simVars, sessVars>>

\* the page is loaded: the effect of lines 154-159 copies the saved history
InitWh ==
  /\ storedWordHistory \in StoredHistories
  /\ wordHistory = storedWordHistory
  /\ utterance = NoUtterance
  /\ searches = {}
  /\ whLast = <<"load", 0>>
  /\ InitNoUp
  /\ InitProvider
  /\ InitNoAn
  /\ InitNoSim
  /\ InitSess

\* speak: speechSynthesis.cancel() ends the utterance being spoken with an
\* error event (onerror adds nothing); the new utterance's onend keeps the
\* addToHistory of this render
speak(word) ==
  /\ utterance' = [word |-> word, captured |-> wordHistory]
  /\ whLast' = <<"speak", word>>
  /\ UNCHANGED <<wordHistory, storedWordHistory, searches, whOther>>

\* utterance.onend: addToHistory({ word: text, ... })
utteranceOnend ==
  /\ utterance # NoUtterance
  /\ wordHistory' = addToHistory(utterance.captured, utterance.word)
  /\ storedWordHistory' = addToHistory(utterance.captured, utterance.word)
  /\ utterance' = NoUtterance
  /\ whLast' = <<"addToHistory", utterance.word>>
  /\ UNCHANGED <<searches, whOther>>

\* utterance.onerror
utteranceOnerror ==
  /\ utterance # NoUtterance
  /\ utterance' = NoUtterance
  /\ whLast' = <<"onerror", utterance.word>>
  /\ UNCHANGED <<wordHistory, storedWordHistory, searches, whOther>>

\* searchDictionary up to its first await
searchDictionary(word) ==
  /\ Cardinality(searches) < MaxSearches
  /\ [word |-> word, captured |-> wordHistory] \notin searches
  /\ searches' = searches \cup { [word |-> word, captured |-> wordHistory] }
  /\ whLast' = <<"searchDictionary", word>>
  /\ UNCHANGED <<wordHistory, storedWordHistory, utterance, whOther>>

\* the responses have come: addToHistory({ word: firstEntry.word, ... })
searchFound(search) ==
  /\ search \in searches
  /\ wordHistory' = addToHistory(search.captured, search.word)
  /\ storedWordHistory' = addToHistory(search.captured, search.word)
  /\ searches' = searches \ { search }
  /\ whLast' = <<"addToHistory", search.word>>
  /\ UNCHANGED <<utterance, whOther>>

\* the word was not found, or the request failed
searchFailed(search) ==
  /\ search \in searches
  /\ searches' = searches \ { search }
  /\ whLast' = <<"searchFailed", search.word>>
  /\ UNCHANGED <<wordHistory, storedWordHistory, utterance, whOther>>

\* clearHistory of WordHistory: the saved history is removed and the page is
\* loaded again
clearHistory ==
  /\ storedWordHistory # <<>>
  /\ storedWordHistory' = <<>>
  /\ wordHistory' = <<>>
  /\ utterance' = NoUtterance
  /\ searches' = {}
  /\ whLast' = <<"load", 0>>
  /\ UNCHANGED whOther

NextWh ==
  \/ \E word \in AddWords : speak(word)
  \/ utteranceOnend
  \/ utteranceOnerror
  \/ \E word \in AddWords : searchDictionary(word)
  \/ \E search \in searches : searchFound(search)
  \/ \E search \in searches : searchFailed(search)
  \/ clearHistory

SpecWh == InitWh /\ [][NextWh]_vars

(***************************************************************************)
(* AuthProvider. A fetch is fetchProfile between its await and the         *)
(* settling of the request: the user id it asks for, whether its           *)
(* AbortController was aborted, and whether retryProfileFetch made it (its *)
(* controller is a local one that nothing aborts). The fetches started by  *)
(* the effect get the effect's current controller, which the next auth     *)
(* state change aborts.                                                    *)
(***************************************************************************)
authOther == <<upVars, whVars, spoken, target, result, simVars, sessVars>>

\* a number to tell the fetch from the others in flight
newFetchId == CHOOSE n \in 1..(MaxFetches + 1) : \A f \in fetches : f.id # n

\* fetchProfile(userId, abortController) up to its await
startFetch(all, userId, isRetry) ==
  all \cup { [id |-> newFetchId, userId |-> userId, aborted |-> FALSE, retry |-> isRetry] }

\* abortController.abort() of the effect's controller
abortEffectFetches ==
  { IF f.retry THEN f ELSE [f EXCEPT !.aborted = TRUE] : f \in fetches }

\* initAuth after getSession: sessionUser is session?.user, NoUser for none
initAuthSession(sessionUser) ==
  /\ initPending
  /\ sessionUser # NoUser => Cardinality(fetches) < MaxFetches
  /\ initPending' = FALSE
  /\ user' = sessionUser
  /\ IF sessionUser # NoUser
       THEN /\ fetches' = startFetch(fetches, sessionUser, FALSE)
            /\ profileError' = FALSE
            /\ UNCHANGED loading
       ELSE /\ loading' = FALSE
            /\ UNCHANGED <<fetches, profileError>>
  /\ UNCHANGED <<profile, authOther>>

\* initAuth when getSession returns an error or loses against the 3000 ms
initAuthFailed ==
  /\ initPending
  /\ initPending' = FALSE
  /\ loading' = FALSE
  /\ UNCHANGED <<user, profile, profileError, fetches, authOther>>

\* the callback of onAuthStateChange
onAuthStateChange(sessionUser) ==
  /\ sessionUser # NoUser => Cardinality(fetches) < MaxFetches
  /\ user' = sessionUser
  /\ profileError' = FALSE
  /\ IF sessionUser # NoUser
       THEN /\ fetches' = startFetch(abortEffectFetches, sessionUser, FALSE)
            /\ UNCHANGED <<profile, loading>>
       ELSE /\ fetches' = abortEffectFetches
            /\ profile' = NoProfile
            /\ loading' = FALSE
  /\ UNCHANGED <<initPending, authOther>>

\* retryProfileFetch, the Retry button of PronunciationApp
retryProfileFetch ==
  /\ user # NoUser
  /\ Cardinality(fetches) < MaxFetches
  /\ loading' = TRUE
  /\ profileError' = FALSE
  /\ fetches' = startFetch(fetches, user, TRUE)
  /\ UNCHANGED <<user, profile, initPending, authOther>>

\* fetchProfile after its await: the request returned the profile
fetchSucceeds(f) ==
  /\ f \in fetches
  /\ fetches' = fetches \ { f }
  /\ IF f.aborted
       THEN UNCHANGED <<profile, profileError>>
       ELSE /\ profile' = f.userId
            /\ profileError' = FALSE
  /\ loading' = FALSE
  /\ UNCHANGED <<user, initPending, authOther>>

\* fetchProfile after its await: the request returned an error (an aborted
\* request does), or the 5000 ms went by
fetchFails(f) ==
  /\ f \in fetches
  /\ fetches' = fetches \ { f }
  /\ IF f.aborted
       THEN UNCHANGED <<profile, profileError>>
       ELSE /\ profile' = NoProfile
            /\ profileError' = TRUE
  /\ loading' = FALSE
  /\ UNCHANGED <<user, initPending, authOther>>

NextAuth ==
  \/ \E u \in UserIds \cup { NoUser } : initAuthSession(u)
  \/ initAuthFailed
  \/ \E u \in UserIds \cup { NoUser } : onAuthStateChange(u)
  \/ retryProfileFetch
  \/ \E f \in fetches : fetchSucceeds(f)
  \/ \E f \in fetches : fetchFails(f)

InitAuth ==
  /\ InitProvider
  /\ InitNoUp
  /\ InitNoWh
  /\ InitNoAn
  /\ InitNoSim
  /\ InitSess

SpecAuth == InitAuth /\ [][NextAuth]_vars

(***************************************************************************)
(* Properties of the listening session (specification Spec).               *)
(***************************************************************************)
IntervalsOf(i) == { t \in TimersOf(i) : t.kind = "interval" }

NonBlank(s) == \E k \in DOMAIN s : ~IsSpace(s[k])

\* C1: a listening session that ends (onend) with a non-blank transcript has its
\* final analysis under way: the analyzing indicator is set and the delayed
\* computation of the PronunciationResult is pending.
C1_SessionEndStartsFinalAnalysis ==
  \A i \in Inst :
    (last = <<"onend", i>> /\ mounted = i /\ NonBlank(transcript))
      => (isAnalyzing /\ \E t \in TimersOf(i) : t.kind = "timeout")

\* C2: a tick of an open session whose transcript is non-blank sets the running
\* score to the overallScore of the analysis of the transcript as it is then.
C2_TickSetsRunningScore ==
  \A i \in Inst :
    (last = <<"tick", i>> /\ mounted = i /\ isListening /\ NonBlank(transcript))
      => realtimeScore = analyzePronounciation(transcript, targetText).overallScore

\* C3: at most one analysis interval timer is active in any state (a session
\* that starts leaves no interval of an earlier session beside its own).
C3_AtMostOneInterval ==
  Cardinality({ t \in timers : t.kind = "interval" }) <= 1

\* C4: right after stopListening, onerror or reset has run for an instance, no
\* interval of that instance is pending.
C4_EndingClearsInterval ==
  \A i \in Inst :
    last \in { <<"stopListening", i>>, <<"onerror", i>>, <<"reset", i>> }
      => IntervalsOf(i) = {}

\* C5: once onend, onerror or reset has run for an instance, and whenever its
\* recognizer is inactive, no interval created by that instance is active.
C5_IntervalReleasedOnExit ==
  \A i \in Inst :
    (\/ last \in { <<"onend", i>>, <<"onerror", i>>, <<"reset", i>> }
     \/ recognizer[i] = "inactive")
      => IntervalsOf(i) = {}

\* a session that had created its interval has ended through onerror and onend
C5_Witness ==
  \E i \in Inst :
    /\ last = <<"onend", i>>
    /\ analysisIntervalRef[i] # 0
    /\ recognizer[i] = "inactive"
    /\ IntervalsOf(i) = {}

\* the session of instance i has ended with a transcript on display that is
\* not blank, and its final analysis is no longer pending
FinalAnalysisDue(i) ==
  /\ mounted = i
  /\ last \in { <<"onend", i>>, <<"timeout", i>>, <<"timeoutNotStored", i>> }
  /\ NonBlank(transcript)
  /\ ~\E t \in TimersOf(i) : t.kind = "timeout"

\* C18: once the final analysis of a session is done and the store took it,
\* the stored history begins with the new result, the earlier entries follow
\* it, and it has no more than 50 entries.
C18_HistoryBeginsWithNewResult ==
  /\ Len(history) <= HistoryCap
  /\ \A i \in Inst :
       (FinalAnalysisDue(i) /\ last # <<"timeoutNotStored", i>>) =>
         /\ history # <<>>
         /\ analysisResult # NoResult
         /\ Head(history) = analysisResult

\* C19: once the final analysis of a session is done, the result is on
\* display and the analyzing indicator is cleared, whether the history store
\* took the result or failed.
C19_ResultDeliveredWithoutStore ==
  \A i \in Inst :
    FinalAnalysisDue(i) =>
      /\ analysisResult # NoResult
      /\ analysisResult.overallScore \in 0..100
      /\ ~isAnalyzing

TimeoutsOf(i) == { t \in TimersOf(i) : t.kind = "timeout" }

\* C24: reset leaves analysisResult null and no final analysis of its instance
\* pending that could write a result or append to the history later; and the
\* end event of the recognition that reset aborted schedules no final analysis
\* and writes neither a result nor the history.
C24_NothingWrittenAfterReset ==
  [][\A i \in Inst :
       /\ last' = <<"reset", i>> =>
            /\ analysisResult' = NoResult
            /\ \A t \in timers' : ~(t.inst = i /\ t.kind = "timeout")
       /\ (recognizer[i] = "aborting" /\ last' = <<"onend", i>>) =>
            /\ \A t \in timers' : ~(t.inst = i /\ t.kind = "timeout")
            /\ analysisResult' = analysisResult
            /\ isAnalyzing' = isAnalyzing
            /\ history' = history]_vars

\* reset has aborted an open session, the end event of which is still to come
C24_Witness ==
  \E i \in Inst :
    /\ last = <<"reset", i>>
    /\ mounted = i
    /\ recognizer[i] = "aborting"
    /\ analysisResult = NoResult
    /\ history = <<>>

\* C25: when a tick or the end of a session finds a transcript to analyse, the
\* target its analysis is made against is the text that the target input
\* holds then.
C25_AnalysisUsesCurrentTarget ==
  \A i \in Inst :
    (last \in { <<"tick", i>>, <<"onend", i>> } /\ mounted = i /\ NonBlank(transcript))
      => closureTargetText(i) = targetText

\* C26: an instance that is not mounted has no interval active, and no tick
\* runs for it.
C26_UnmountClearsInterval ==
  \A i \in Inst :
    mounted # i => (IntervalsOf(i) = {} /\ last # <<"tick", i>>)

(***************************************************************************)
(* Properties of the analysis (specification SpecAn).                      *)
(***************************************************************************)
\* the whitespace-delimited words of a phrase, lower-cased
WordsOf(s) == SelectSeq(SplitWS(ToLowerCase(s)), LAMBDA w : w # <<>>)

Analyzed == result # NoResult

Scores == [k \in DOMAIN result.wordBreakdown |-> result.wordBreakdown[k].score]

RECURSIVE SumSeq(_)
SumSeq(q) == IF q = <<>> THEN 0 ELSE Head(q) + SumSeq(Tail(q))

\* r is n / d rounded to the nearest integer, halves up
IsRounded(r, n, d) == 2 * r * d - d <= 2 * n /\ 2 * n < 2 * r * d + d

\* C6: the phonetic breakdown of the target has one entry per target token,
\* and every entry of the word breakdown that has a target token carries the
\* phonetic form of that token (the table's, or the cleaned token).
C6_ExpectedIsPhoneticOfWord ==
  Analyzed =>
    /\ Len(getPhoneticBreakdown(target)) = Len(WordsOf(target))
    /\ \A k \in DOMAIN result.wordBreakdown :
         result.wordBreakdown[k].word # <<>> =>
           result.wordBreakdown[k].expected =
             PhoneticOf(CleanWord(result.wordBreakdown[k].word))

\* C7: when the transcript or the target is blank, every word score and the
\* overall score is 0 or 20.
C7_BlankInputScores0Or20 ==
  (Analyzed /\ (~NonBlank(spoken) \/ ~NonBlank(target))) =>
    /\ result.overallScore \in {0, 20}
    /\ \A k \in DOMAIN Scores : Scores[k] \in {0, 20}

\* C8: the word breakdown has max(words spoken, words of the target) entries,
\* and entry i carries the i-th target word.
C8_BreakdownLength ==
  Analyzed =>
    /\ Len(result.wordBreakdown) = Max2(Len(WordsOf(spoken)), Len(WordsOf(target)))
    /\ \A k \in DOMAIN result.wordBreakdown :
         result.wordBreakdown[k].word = AtOrEmpty(WordsOf(target), k - 1)

\* C9: overallScore is the sum of the word scores divided by
\* max(len(S), len(T), 1), rounded half up, which is the rounded mean of the
\* breakdown's scores.
C9_OverallIsRoundedMean ==
  Analyzed =>
    /\ IsRounded(result.overallScore, SumSeq(Scores),
                 Max2(Max2(Len(WordsOf(spoken)), Len(WordsOf(target))), 1))
    /\ IsRounded(result.overallScore, SumSeq(Scores), Len(result.wordBreakdown))

\* more words spoken than the target has, and a mean that ends in a half
C9_Witness ==
  /\ Analyzed
  /\ Len(WordsOf(spoken)) = 2
  /\ Len(WordsOf(target)) = 1
  /\ SumSeq(Scores) % 2 = 1
  /\ 2 * result.overallScore = SumSeq(Scores) + 1

\* C10: every word score and the overall score is an integer of 0..100.
C10_ScoresInRange ==
  Analyzed =>
    /\ result.overallScore \in 0..100
    /\ \A k \in DOMAIN Scores : Scores[k] \in 0..100

\* a word scored by similarity, strictly between 0 and 100, beside another word
C10_Witness ==
  /\ Analyzed
  /\ Len(result.wordBreakdown) >= 2
  /\ \E k \in DOMAIN Scores :
       /\ Scores[k] \in 1..99
       /\ result.wordBreakdown[k].feedback \notin {"Missing word", "Extra word"}

\* s is the beginning of t
IsPrefix(s, t) == Len(s) <= Len(t) /\ SubSeq(t, 1, Len(s)) = s

\* C14: at a position past the end of the spoken words that has a target word
\* the entry scores 0, "Missing word"; at a position past the end of the target
\* that has a spoken word it scores 20, "Extra word"; and when the spoken words
\* are the first words of the target, overallScore is 100 * len(S) / len(T)
\* rounded.
C14_MissingAndExtraWords ==
  Analyzed =>
    LET S == WordsOf(spoken)
        T == WordsOf(target)
    IN  /\ \A k \in (Len(S) + 1)..Len(T) :
             /\ k \in DOMAIN result.wordBreakdown
             /\ result.wordBreakdown[k].score = 0
             /\ result.wordBreakdown[k].feedback = "Missing word"
        /\ \A k \in (Len(T) + 1)..Len(S) :
             /\ k \in DOMAIN result.wordBreakdown
             /\ result.wordBreakdown[k].score = 20
             /\ result.wordBreakdown[k].feedback = "Extra word"
        /\ (IsPrefix(S, T) /\ Len(T) > 0) =>
             IsRounded(result.overallScore, 100 * Len(S), Len(T))

\* the first of two target words was spoken, and no more: overallScore 50
C14_Witness ==
  /\ Analyzed
  /\ Len(WordsOf(spoken)) = 1
  /\ Len(WordsOf(target)) = 2
  /\ IsPrefix(WordsOf(spoken), WordsOf(target))
  /\ result.wordBreakdown[2].feedback = "Missing word"
  /\ result.overallScore = 50

\* the feedback the bands give a score
BandFeedback(score) ==
  IF score >= 90 THEN "Excellent pronunciation"
  ELSE IF score >= 75 THEN "Good pronunciation"
  ELSE IF score >= 60 THEN "Needs improvement"
  ELSE IF score >= 40 THEN "Significant difference"
  ELSE "Very different from target"

\* C15: at a position that has a spoken and a target word, equal words score
\* 100, "Perfect match"; different words score the similarity times 100,
\* rounded, and the feedback is that of the band of the score (90, 75, 60, 40).
C15_PresentWordsScoredBySimilarity ==
  Analyzed =>
    LET S == WordsOf(spoken)
        T == WordsOf(target)
    IN  \A k \in 1..Min2(Len(S), Len(T)) :
          LET entry == result.wordBreakdown[k]
              sim == calculateSimilarity(S[k], T[k])
          IN  IF S[k] = T[k]
                THEN entry.score = 100 /\ entry.feedback = "Perfect match"
                ELSE /\ IsRounded(entry.score, 100 * sim.num, sim.den)
                     /\ entry.feedback = BandFeedback(entry.score)

\* a word that misses its target by one character of thirteen: 92, excellent
C15_Witness ==
  /\ Analyzed
  /\ Len(WordsOf(spoken)) = 1
  /\ Len(WordsOf(target)) = 1
  /\ WordsOf(spoken) # WordsOf(target)
  /\ result.wordBreakdown[1].score = 92
  /\ result.wordBreakdown[1].feedback = "Excellent pronunciation"

\* the two words have a character in common
ShareCharacter(s, t) == Range(s) \cap Range(t) # {}

\* the two words have the same character at the same index
SameAtSomeIndex(s, t) == \E k \in 1..Min2(Len(s), Len(t)) : s[k] = t[k]

\* C16: at a position where the spoken and the target word are both present,
\* differ and share a character, the word score is strictly between 0 and 100.
C16_SharedCharacterScoresBetween ==
  Analyzed =>
    LET S == WordsOf(spoken)
        T == WordsOf(target)
    IN  \A k \in 1..Min2(Len(S), Len(T)) :
          (S[k] # T[k] /\ ShareCharacter(S[k], T[k]))
            => result.wordBreakdown[k].score \in 1..99

\* C16 as amended: at a position where the spoken and the target word (each
\* of fewer than 200 characters) are both present, differ and have the same
\* character at the same index, the word score is strictly between 0 and 100.
C16_SameIndexCharacterScoresBetween ==
  Analyzed =>
    LET S == WordsOf(spoken)
        T == WordsOf(target)
    IN  \A k \in 1..Min2(Len(S), Len(T)) :
          (/\ S[k] # T[k]
           /\ Len(S[k]) < 200 /\ Len(T[k]) < 200
           /\ SameAtSomeIndex(S[k], T[k]))
            => result.wordBreakdown[k].score \in 1..99

\* two different words that agree in their first character only
C16_Witness ==
  /\ Analyzed
  /\ Len(WordsOf(spoken)) >= 1
  /\ Len(WordsOf(target)) >= 1
  /\ LET s == WordsOf(spoken)[1]
         t == WordsOf(target)[1]
     IN  /\ s # t
         /\ s[1] = t[1]
         /\ \A k \in 2..Min2(Len(s), Len(t)) : s[k] # t[k]
         /\ Len(s) # Len(t)
         /\ result.wordBreakdown[1].score \in 1..99

\* the keys of the phonetic table
TableKeys == { e[1] : e \in phoneticMap }

\* the transcription the table has for one of its keys
TableValue(key) == (CHOOSE e \in phoneticMap : e[1] = key)[2]

\* C17: every token of the phonetic breakdown is the table's transcription
\* when the cleaned token is a key of the table, and the cleaned token itself
\* when it is not.
C17_UnknownTokensPassThrough ==
  Analyzed =>
    LET tokens == SplitWS(ToLowerCase(target))
    IN  \A k \in DOMAIN result.wordBreakdown :
          k <= Len(tokens) =>
            LET cleaned == CleanWord(tokens[k])
            IN  result.wordBreakdown[k].expected =
                  IF cleaned \in TableKeys THEN TableValue(cleaned) ELSE cleaned

\* the score at the bottom of the band of a score
BandFloor(score) ==
  IF score >= 90 THEN 90
  ELSE IF score >= 75 THEN 75
  ELSE IF score >= 60 THEN 60
  ELSE IF score >= 40 THEN 40
  ELSE 0

\* C20: the feedback and the suggestions of a result are those of the band of
\* its overallScore (from 90, from 75, from 60, from 40, below 40), whatever
\* the words were, and there are one to three suggestions.
C20_FeedbackByOverallBand ==
  Analyzed =>
    /\ result.feedback = OverallFeedback(BandFloor(result.overallScore))
    /\ result.suggestions = Suggestions(BandFloor(result.overallScore))
    /\ Len(result.suggestions) \in 1..3
    /\ result.feedback # ""

\* a result at the lower edge of the second band, with its two suggestions
C20_Witness ==
  /\ Analyzed
  /\ result.overallScore = 75
  /\ Len(result.suggestions) = 2
  /\ result.feedback = "Great job! Your pronunciation is quite good."

C22_AlignmentIsPositional ==
  Analyzed =>
    \A k \in DOMAIN result.wordBreakdown :
      /\ result.wordBreakdown[k].word = AtOrEmpty(WordsOf(target), k - 1)
      /\ result.wordBreakdown[k].spoken = AtOrEmpty(WordsOf(spoken), k - 1)

\* a word was inserted before the target's word: the pair at the first index
\* differs, and the target's word, spoken second, counts as an extra word
C22_Witness ==
  /\ Analyzed
  /\ Len(WordsOf(spoken)) = 2
  /\ Len(WordsOf(target)) = 1
  /\ WordsOf(spoken)[2] = WordsOf(target)[1]
  /\ WordsOf(spoken)[1] # WordsOf(target)[1]
  /\ result.wordBreakdown[1].score < 100
  /\ result.wordBreakdown[2].feedback = "Extra word"

(***************************************************************************)
(* Properties of the avatar upload (specification SpecUp).                 *)
(***************************************************************************)
\* C23: the object that uploadAvatar writes for a signed-in user passes the
\* insert policy "Users can upload their own avatar" (the first folder of
\* its name is the user's id), so the upload is permitted.
C23_OwnAvatarUploadPermitted ==
  (upResult # NoUpload /\ upUser # NoUser) =>
    /\ InsertPolicy(upUser, upResult.bucket, upResult.name)
    /\ foldername(upResult.name)[1] = upUser
    /\ upResult.error = "none"

(***************************************************************************)
(* Properties of the word history (specification SpecWh).                  *)
(***************************************************************************)
\* C27: the word history of the state and the saved copy are equal, have at
\* most 50 entries and no word twice, and after an addToHistory call the word
\* it added comes first.
C27_WordHistoryWellKept ==
  /\ wordHistory = storedWordHistory
  /\ Len(wordHistory) <= 50
  /\ \A j, k \in DOMAIN wordHistory : wordHistory[j] = wordHistory[k] => j = k
  /\ whLast[1] = "addToHistory" =>
       (wordHistory # <<>> /\ wordHistory[1] = whLast[2])

\* a new word was added to a history of 50 words, whose oldest word went
C27_Witness ==
  /\ whLast = <<"addToHistory", 51>>
  /\ Len(wordHistory) = 50
  /\ wordHistory[1] = 51
  /\ wordHistory[50] = 49
  /\ storedWordHistory = wordHistory

\* C28: an addToHistory call that finds the history below its cap keeps
\* every word that the history holds: the word of an earlier call is not lost
\* to a later call, whichever render created the callback that makes it.
C28_NoAdditionLost ==
  [][(whLast'[1] = "addToHistory" /\ Len(wordHistory) < 50) =>
       \A k \in DOMAIN wordHistory :
         \E j \in DOMAIN wordHistory' : wordHistory'[j] = wordHistory[k]]_vars

(***************************************************************************)
(* Properties of AuthProvider (specification SpecAuth).                    *)
(***************************************************************************)
\* a fetch for the current user is in flight and was not aborted
FetchInFlight == \E f \in fetches : f.userId = user /\ ~f.aborted

\* PronunciationApp renders Navigate to /login: loading is false and
\* getDisplayProfile() is null (no profile, and no fallback)
RedirectsToLogin ==
  /\ ~loading
  /\ profile = NoProfile
  /\ ~(profileError /\ user # NoUser)

\* C29: while a profile fetch for the current user is in flight, loading is
\* true, so the signed-in user is not redirected to /login.
C29_LoadingWhileFetching ==
  (user # NoUser /\ FetchInFlight) => (loading /\ ~RedirectsToLogin)

\* C30: with no user and nothing pending, there is no profile; and a profile
\* beside a user is that user's.
C30_ProfileIsTheUsers ==
  /\ (user = NoUser /\ fetches = {} /\ ~initPending) => profile = NoProfile
  /\ (user # NoUser /\ profile # NoProfile) => profile = user

(***************************************************************************)
(* Properties of the similarity (specification SpecSim).                   *)
(***************************************************************************)
Compared == similarity # NoSimilarity

\* the strings one insertion, deletion or substitution of a character away
\* from s, none longer than n
OneEdit(s, n) ==
  { SubSeq(s, 1, k - 1) \o SubSeq(s, k + 1, Len(s)) : k \in 1..Len(s) }
    \cup { [s EXCEPT ![k] = c] : k \in 1..Len(s), c \in SimChars }
    \cup IF Len(s) < n
           THEN { SubSeq(s, 1, k) \o <<c>> \o SubSeq(s, k + 1, Len(s)) :
                    k \in 0..Len(s), c \in SimChars }
           ELSE {}

\* the strings at most k edits away from s
RECURSIVE Within(_, _, _)
Within(s, k, n) ==
  IF k = 0 THEN { s }
  ELSE LET nearer == Within(s, k - 1, n)
       IN  nearer \cup UNION { OneEdit(t, n) : t \in nearer }

\* The Levenshtein distance by its definition: the least number of single
\* character edits that turn s into t. (A shortest sequence of edits needs no
\* string longer than the longer of the two.)
Levenshtein(s, t) ==
  LET n == Max2(Len(s), Len(t))
  IN  CHOOSE k \in 0..n :
        /\ t \in Within(s, k, n)
        /\ \A m \in 0..(k - 1) : t \notin Within(s, m, n)

\* C11: calculateSimilarity(a, b) is (maxLen - d) / maxLen, d being the
\* Levenshtein distance of a and b and maxLen the longer length; it is 1 when
\* both are empty, 0 when exactly one is empty, and always within [0, 1].
C11_SimilarityIsNormalisedLevenshtein ==
  Compared =>
    LET maxLen == Max2(Len(simA), Len(simB))
        d == Levenshtein(simA, simB)
    IN  /\ similarity.den > 0
        /\ maxLen > 0 => similarity.num * maxLen = (maxLen - d) * similarity.den
        /\ maxLen = 0 => similarity.num = similarity.den
        /\ ((simA = <<>>) # (simB = <<>>)) => similarity.num = 0
        /\ 0 <= similarity.num /\ similarity.num <= similarity.den

\* two strings of different lengths that need a substitution and an insertion
C11_Witness ==
  /\ Compared
  /\ Len(simA) = 2
  /\ Len(simB) = 3
  /\ Levenshtein(simA, simB) = 2
  /\ similarity.num * 3 = similarity.den

\* C12: calculateSimilarity(a, b) is calculateSimilarity(b, a).
C12_SimilaritySymmetric ==
  Compared =>
    LET swapped == calculateSimilarity(simB, simA)
    IN  similarity.num * swapped.den = swapped.num * similarity.den

\* two strings of different lengths, neither a prefix of the other
C12_Witness ==
  /\ Compared
  /\ Len(simA) < Len(simB)
  /\ simA # <<>>
  /\ simA # SubSeq(simB, 1, Len(simA))
  /\ similarity.num > 0

\* C13: calculateSimilarity(a, a) is 1, for the empty string too.
C13_SimilarityOfSelfIsOne ==
  (Compared /\ simA = simB) => similarity.num = similarity.den /\ similarity.den > 0

\* a string of the greatest length compared with itself
C13_Witness ==
  /\ Compared
  /\ simA = simB
  /\ Len(simA) = MaxStrLen
  /\ similarity.num = similarity.den

====
